---- MODULE Spec2Model ----
(***************************************************************************)
(* A model of kraul (src/kraul.go): a web crawler made of one scheduler    *)
(* goroutine (startCrawling), a pool of crawler goroutines (crawler) and   *)
(* the sink loop of main.  They communicate over Go channels: the buffered *)
(* urlChannel (the frontier) and the unbuffered errorChannel,              *)
(* intermediateResultChannel and chResponses.                              *)
(*                                                                         *)
(* Go strings are sequences of one-character strings, so that String(),    *)
(* prefixes and concatenation are computed as the library computes them.   *)
(* A url.URL is a record of the fields url.Parse fills for the strings of   *)
(* the model: Scheme, Opaque, Host, Path, ForceQuery, RawQuery, Fragment.   *)
(* The strings of the model hold lower-case letters, digits, the line       *)
(* break and : / . # ? and so no user information, port, escape or          *)
(* upper-case scheme.                                                       *)
(***************************************************************************)
EXTENDS Integers, Sequences, FiniteSets, Bags, TLC

(* ---------------------------------------------------------------- bounds *)

\* The size of the crawler pool.  kraul.go:211 starts 5; the model scales it.
NumCrawlers == 2

\* The capacity of urlChannel.  kraul.go:207 allocates 10000; the model scales it.
FrontierCap == 1

Crawlers == 1..NumCrawlers

(* ------------------------------------------------------------- addresses *)

URL(scheme, host, path, fragment) ==
    [Scheme |-> scheme, Opaque |-> <<>>, Host |-> host, Path |-> path,
     ForceQuery |-> FALSE, RawQuery |-> <<>>, Fragment |-> fragment]

\* The zero value of url.URL, held by a variable that holds no address.
NoURL == URL(<<>>, <<>>, <<>>, <<>>)

http == <<"h", "t", "t", "p">>
https == <<"h", "t", "t", "p", "s">>
ftp == <<"f", "t", "p">>
mailto == <<"m", "a", "i", "l", "t", "o">>
hostH == <<"h">>

\* url.URL.String() (the strings of the model need no escaping).
String(u) ==
    LET scheme == IF u.Scheme # <<>> THEN u.Scheme \o <<":">> ELSE <<>>
        authority == IF (u.Scheme # <<>> \/ u.Host # <<>>)
                        /\ (u.Host # <<>> \/ u.Path # <<>>)
                     THEN <<"/", "/">> \o u.Host
                     ELSE <<>>
        slash == IF u.Path # <<>> /\ u.Path[1] # "/" /\ u.Host # <<>>
                 THEN <<"/">>
                 ELSE <<>>
        hier == IF u.Opaque # <<>>
                THEN u.Opaque
                ELSE authority \o slash \o u.Path
        query == IF u.ForceQuery \/ u.RawQuery # <<>>
                 THEN <<"?">> \o u.RawQuery
                 ELSE <<>>
        fragment == IF u.Fragment # <<>> THEN <<"#">> \o u.Fragment ELSE <<>>
    IN  scheme \o hier \o query \o fragment

\* url.Fragment = "" on a copy of the address.
StripFragment(u) == [u EXCEPT !.Fragment = <<>>]

\* Mutant: any address with a scheme counts as a web address.
isAnyUrl(url) == url.Scheme # <<>>

isWebUrl(url) == url.Scheme = http \/ url.Scheme = https

(* --------------------------------------------------------------- strings *)

Letters ==
    {"a", "b", "c", "d", "e", "f", "g", "h", "i", "j", "k", "l", "m",
     "n", "o", "p", "q", "r", "s", "t", "u", "v", "w", "x", "y", "z"}
Digits == {"0", "1", "2", "3", "4", "5", "6", "7", "8", "9"}

\* The least element of a non-empty set of numbers.
Least(S) == CHOOSE i \in S : \A j \in S : i <= j

\* strings.Index(s, c) for a one-character c, counted from 1; 0 when absent.
Index(s, c) ==
    LET at == {i \in 1..Len(s) : s[i] = c}
    IN  IF at = {} THEN 0 ELSE Least(at)

\* strings.LastIndex(s, c), counted from 1; 0 when absent.
LastIndex(s, c) ==
    LET at == {i \in 1..Len(s) : s[i] = c}
    IN  IF at = {} THEN 0 ELSE CHOOSE i \in at : \A j \in at : j <= i

\* strings.Cut(s, c): what precedes and what follows the first c.
Cut(s, c) ==
    LET i == Index(s, c)
    IN  IF i = 0
        THEN [before |-> s, after |-> <<>>, found |-> FALSE]
        ELSE [before |-> SubSeq(s, 1, i - 1),
              after |-> SubSeq(s, i + 1, Len(s)),
              found |-> TRUE]

HasPrefix(s, prefix) ==
    Len(s) >= Len(prefix) /\ SubSeq(s, 1, Len(prefix)) = prefix

\* path.Split(p): the path up to and including its last slash, and the rest.
Split(p) ==
    LET i == LastIndex(p, "/")
    IN  [dir |-> SubSeq(p, 1, i), file |-> SubSeq(p, i + 1, Len(p))]

(* -------------------------------------------------------------- url.Parse *)

\* getScheme of net/url: the letters, digits, + - . before the first colon.
getScheme(rawURL) ==
    LET stops == {i \in 1..Len(rawURL) :
                    /\ rawURL[i] \notin Letters
                    /\ ~(i > 1 /\ rawURL[i] \in Digits \cup {"+", "-", "."})}
        i == IF stops = {} THEN 0 ELSE Least(stops)
    IN  IF i = 0 \/ rawURL[i] # ":"
        THEN [err |-> FALSE, scheme |-> <<>>, rest |-> rawURL]
        ELSE IF i = 1
        THEN [err |-> TRUE, scheme |-> <<>>, rest |-> <<>>]
        ELSE [err |-> FALSE, scheme |-> SubSeq(rawURL, 1, i - 1),
              rest |-> SubSeq(rawURL, i + 1, Len(rawURL))]

\* What url.Parse returns on an error: a nil *url.URL.
ParseError == [err |-> TRUE, url |-> NoURL]

\* The query of what follows the scheme: a lone final ? forces an empty
\* query, otherwise the query is what follows the first ?.
splitQuery(rest) ==
    IF rest # <<>> /\ rest[Len(rest)] = "?" /\ Index(rest, "?") = Len(rest)
    THEN [rest |-> SubSeq(rest, 1, Len(rest) - 1), force |-> TRUE, query |-> <<>>]
    ELSE [rest |-> Cut(rest, "?").before, force |-> FALSE,
          query |-> Cut(rest, "?").after]

\* The authority and the path of rest, which starts with // .
splitAuthority(url, rest) ==
    LET auth == Cut(SubSeq(rest, 3, Len(rest)), "/")
    IN  [url EXCEPT !.Host = auth.before,
                    !.Path = IF auth.found THEN <<"/">> \o auth.after ELSE <<>>]

\* parse of net/url once the scheme and the query are split off: a rootless
\* rest after a scheme is opaque, a colon in the first segment of a relative
\* path is refused, a rest that starts with // has an authority.
parseHier(url, rest) ==
    IF ~HasPrefix(rest, <<"/">>) /\ url.Scheme # <<>>
    THEN [err |-> FALSE, url |-> [url EXCEPT !.Opaque = rest]]
    ELSE IF ~HasPrefix(rest, <<"/">>) /\ Index(Cut(rest, "/").before, ":") # 0
    THEN ParseError
    ELSE IF /\ HasPrefix(rest, <<"/", "/">>)
            /\ (url.Scheme # <<>> \/ ~HasPrefix(rest, <<"/", "/", "/">>))
    THEN [err |-> FALSE, url |-> splitAuthority(url, rest)]
    ELSE [err |-> FALSE, url |-> [url EXCEPT !.Path = rest]]

\* parse of net/url on what getScheme returned.
parseScheme(sch, query, fragment) ==
    IF sch.err
    THEN ParseError
    ELSE parseHier([Scheme |-> sch.scheme, Opaque |-> <<>>, Host |-> <<>>,
                    Path |-> <<>>, ForceQuery |-> query.force,
                    RawQuery |-> query.query, Fragment |-> fragment],
                   query.rest)

\* parse of net/url on what precedes the fragment: a control character is
\* refused.
parse(u, fragment) ==
    IF \E i \in 1..Len(u) : u[i] = "\n"
    THEN ParseError
    ELSE parseScheme(getScheme(u), splitQuery(getScheme(u).rest), fragment)

\* url.Parse(rawURL): the fragment is cut off at the first #, then the scheme,
\* the query, the authority and the path are split off what precedes it.
Parse(rawURL) == parse(Cut(rawURL, "#").before, Cut(rawURL, "#").after)

(* ------------------------------------------------------------ resolveHref *)

\* What resolveHref returns with an error: no address.
ResolveError == [err |-> TRUE, url |-> NoURL]

\* resolveHref with the path of the base taken as it is, and not "/" when it
\* is empty.
resolveParsedKeepsEmptyPath(base, url) ==
    IF url.Scheme \notin {<<>>, http, https, ftp}
    THEN [err |-> FALSE, url |-> url]
    ELSE [err |-> FALSE,
          url |-> [url EXCEPT
                     !.Scheme = IF url.Scheme = <<>> THEN base.Scheme ELSE url.Scheme,
                     !.Host = IF url.Host = <<>> THEN base.Host ELSE url.Host,
                     !.Path = IF url.Path = <<>>
                              THEN base.Path
                              ELSE IF ~HasPrefix(url.Path, <<"/">>)
                              THEN Split(base.Path).dir \o url.Path
                              ELSE url.Path]]

\* resolveHref once href is parsed: the scheme, the host and the path that
\* url lacks come from base; a scheme other than http, https and ftp is
\* passed through.
resolveParsed(base, url) ==
    IF url.Scheme \notin {<<>>, http, https, ftp}
    THEN [err |-> FALSE, url |-> url]
    ELSE [err |-> FALSE,
          url |-> [url EXCEPT
                     !.Scheme = IF url.Scheme = <<>> THEN base.Scheme ELSE url.Scheme,
                     !.Host = IF url.Host = <<>> THEN base.Host ELSE url.Host,
                     !.Path = IF url.Path = <<>>
                              THEN IF base.Path = <<>> THEN <<"/">> ELSE base.Path
                              ELSE IF ~HasPrefix(url.Path, <<"/">>)
                              THEN Split(base.Path).dir \o url.Path
                              ELSE url.Path]]

\* resolveHref once url.Parse returned.
resolveResult(base, parsed) ==
    IF parsed.err THEN ResolveError ELSE resolveParsed(base, parsed.url)

resolveHref(base, href) ==
    IF base.Scheme = <<>> \/ base.Host = <<>>
    THEN ResolveError
    ELSE resolveResult(base, Parse(href))

(* --------------------------------------------------------- getPhoneNumber *)

tel == <<"t", "e", "l", ":", "/", "/">>

\* getPhoneNumber returning results[1], the group of the expression, in
\* place of the whole match.
getPhoneNumberGroup(value) ==
    LET rest == SubSeq(value, Len(tel) + 1, Len(value))
    IN  IF /\ HasPrefix(value, tel)
           /\ rest # <<>>
           /\ \A i \in 1..Len(rest) : rest[i] # "\n"
        THEN [ok |-> TRUE, phoneNumber |-> rest]
        ELSE [ok |-> FALSE, phoneNumber |-> <<>>]

\* The regular expression ^tel://(.+)$ : tel:// and then one character or
\* more up to the end of the text, none of them a line break.  results[0] is
\* the whole match.
getPhoneNumber(value) ==
    LET rest == SubSeq(value, Len(tel) + 1, Len(value))
    IN  IF /\ HasPrefix(value, tel)
           /\ rest # <<>>
           /\ \A i \in 1..Len(rest) : rest[i] # "\n"
        THEN [ok |-> TRUE, phoneNumber |-> value]
        ELSE [ok |-> FALSE, phoneNumber |-> <<>>]

(* ------------------------------------------------------------ the web *)

pageA == URL(http, hostH, <<"/", "a">>, <<>>)
pageB == URL(http, hostH, <<"/", "b">>, <<>>)
pageC == URL(http, hostH, <<"/", "c">>, <<>>)
pageD == URL(http, hostH, <<"/", "d">>, <<>>)
pageE == URL(https, hostH, <<"/", "e">>, <<>>)
pageF == URL(http, hostH, <<"/", "f">>, <<>>)

\* The seed of the scenario: http://example.com/a
exampleCom == <<"e", "x", "a", "m", "p", "l", "e", ".", "c", "o", "m">>
pageX == URL(http, exampleCom, <<"/", "a">>, <<>>)

\* Seeds that url.Parse accepts in main: an absolute address, the same address
\* with a fragment, a bare path (no scheme, no host), and the seed of the
\* scenario.
Seeds ==
    { pageA,
      pageX,
      URL(http, hostH, <<"/", "a">>, <<"x">>),
      URL(<<>>, <<>>, <<"/", "a">>, <<>>) }

\* The tokens html.Tokenizer yields: the kind, the tag name and the
\* attributes in the order of the document.
Token(type, data, attr) == [Type |-> type, Data |-> data, Attr |-> attr]
Attribute(key, val) == [Key |-> key, Val |-> val]

StartTag(data, attr) == Token("StartTag", data, attr)
Anchor(href) == StartTag("a", <<Attribute("href", href)>>)
Base(href) == StartTag("base", <<Attribute("href", href)>>)

\* The documents the servers return.  /a links to itself, lists /b twice
\* (once with a fragment) and carries a mailto and an ftp link; /b links
\* back to /a (a cycle); /d links to itself and, under a base without path,
\* lists https://h/e twice, once with the relative path that the empty base
\* path leaves; /f declares a base that url.Parse refuses.  The page
\* http://example.com/a is the one of the scenario: /b, ./c and a telephone
\* link.  Every other address answers with a document without tags.
Document(urlString) ==
    IF urlString = String(pageA)
    THEN << Anchor(<<"/", "a">>),
            Anchor(<<"b">>),
            Anchor(<<"m", "a", "i", "l", "t", "o", ":", "x">>),
            Anchor(<<"/", "b", "#", "x">>),
            Anchor(<<"f", "t", "p", ":", "/", "/", "h", "/", "f">>),
            Anchor(<<"d">>) >>
    ELSE IF urlString = String(pageB)
    THEN << Anchor(<<"/", "a">>), Anchor(<<"c">>) >>
    ELSE IF urlString = String(pageD)
    THEN << Anchor(<<"/", "d">>),
            StartTag("head", <<>>),
            Base(<<"h", "t", "t", "p", "s", ":", "/", "/", "h">>),
            Anchor(<<"e">>),
            Anchor(<<"/", "e">>),
            Anchor(<<"h", "t", "t", "p", ":", "/", "/", "h", "/", "c">>),
            Anchor(<<"h", "t", "t", "p", ":", "/", "/", "h", "/", "f">>) >>
    ELSE IF urlString = String(pageF)
    THEN << StartTag("head", <<>>), Base(<<":">>) >>
    ELSE IF urlString = String(pageX)
    THEN << Anchor(<<"/", "b">>),
            Anchor(<<".", "/", "c">>),
            Anchor(<<"t", "e", "l", ":", "/", "/", "5", "5", "5", "1", "2", "3", "4">>) >>
    ELSE << >>

(* ----------------------------------------------------------- extractLinks *)

\* getAttribute(token, name): the value of the first attribute of that name.
getAttribute(token, name) ==
    LET at == {i \in 1..Len(token.Attr) : token.Attr[i].Key = name}
    IN  IF at = {}
        THEN [ok |-> FALSE, value |-> <<>>]
        ELSE [ok |-> TRUE, value |-> token.Attr[Least(at)].Val]

getHref(token) == getAttribute(token, "href")

\* The locals of extractLinks when it enters its loop.
ExtractStart(documentUrl) ==
    [pc |-> "next", documentUrl |-> documentUrl, tokens |-> <<>>,
     inHeader |-> FALSE, baseURL |-> documentUrl,
     links |-> <<>>, phoneNumbers |-> <<>>]

\* case "base", with an href, inside the head: baseURL, err = url.Parse(...).
\* On an error url.Parse returned nil, and *baseURL = documentUrl writes
\* through the nil pointer: the goroutine panics.
extractBase(ex, parsed) ==
    IF parsed.err
    THEN [ex EXCEPT !.pc = "panic"]
    ELSE [ex EXCEPT !.baseURL = parsed.url]

\* The same with the fragment left on the address.
extractResolvedKeepsFragment(ex, resolved) ==
    IF resolved.err
    THEN ex
    ELSE [ex EXCEPT !.links = Append(ex.links, resolved.url)]

\* case "a", with an href that is no telephone number, once resolveHref
\* returned: an error passes the anchor over, an address is appended with its
\* fragment emptied.
extractResolved(ex, resolved) ==
    IF resolved.err
    THEN ex
    ELSE [ex EXCEPT !.links = Append(ex.links, StripFragment(resolved.url))]

\* case "a", with an href, once getPhoneNumber returned.
extractAnchor(ex, rawUrl, phone) ==
    IF phone.ok
    THEN [ex EXCEPT !.phoneNumbers = Append(ex.phoneNumbers, phone.phoneNumber)]
    ELSE extractResolved(ex, resolveHref(ex.baseURL, rawUrl))

\* One pass of the loop of extractLinks on a token that is not the
\* ErrorToken: only start tags named head, base and a have a case.
extractToken(ex, t) ==
    IF t.Type # "StartTag"
    THEN ex
    ELSE IF t.Data = "head"
    THEN [ex EXCEPT !.inHeader = TRUE]
    ELSE IF t.Data = "base" /\ ex.inHeader /\ getAttribute(t, "href").ok
    THEN extractBase(ex, Parse(getAttribute(t, "href").value))
    ELSE IF t.Data = "a" /\ getHref(t).ok
    THEN extractAnchor(ex, getHref(t).value, getPhoneNumber(getHref(t).value))
    ELSE ex

\* The loop of extractLinks over the tokens from position i on.
RECURSIVE extractFrom(_, _, _)
extractFrom(ex, tokens, i) ==
    IF ex.pc = "panic" \/ i > Len(tokens)
    THEN ex
    ELSE extractFrom(extractToken(ex, tokens[i]), tokens, i + 1)

\* extractLinks(documentUrl, r) on the tokens of r.
extractLinks(documentUrl, tokens) ==
    extractFrom(ExtractStart(documentUrl), tokens, 1)

\* The zero value of IndexedWebPage.
NoPage == [URL |-> NoURL, Links |-> <<>>, PhoneNumbers |-> <<>>]

\* What extractLinks found for the address the crawler got: the fragment is
\* not sent to the server.
Extracted(url) == extractLinks(url, Document(String(StripFragment(url))))

\* loadPage on a successful GET whose document extractLinks read to its end.
loadPage(url) ==
    [URL |-> url, Links |-> Extracted(url).links,
     PhoneNumbers |-> Extracted(url).phoneNumbers]

\* http.Get fails on every address that is not http/https with a host; on the
\* others the transport may fail or succeed.
CanLoad(url) == isWebUrl(url) /\ url.Host # <<>>

(* ------------------------------------------------------------------ state *)

VARIABLES
    startUrl,       \* main: the parsed seed
    urlChannel,     \* the frontier: a buffered channel of url.URL
    crawlers,       \* per crawler: where it is, the address and the page it holds
    schedPc,        \* startCrawling: "seed", "select", "forward", "links"
    result,         \* startCrawling: the page of the current case
    linkIdx,        \* startCrawling: the position of the range over result.Links
    urlsCounter,    \* startCrawling: the outstanding counter
    foundUrls,      \* startCrawling: the keys of the foundUrls map
    mainPc,         \* main: "recv", "store", "exited"
    mainResult,     \* main: the page being stored
    fetches,        \* history: bag of the addresses http.Get was sent
    loaded,         \* history: bag of the page addresses loadPage returned a page for
    linkEnqueued,   \* history: bag of the address strings the link loop enqueued
    received,       \* history: bag of the page addresses the scheduler received
    delivered,      \* history: bag of the page addresses main received
    errored,        \* history: the address strings whose CrawlError was consumed
    foundAtRecv,    \* history: foundUrls when the current page was received
    counterAtRecv,  \* history: urlsCounter when the current page was received
    gained,         \* history: the jobs enqueued since the current page was received
    resolver,       \* one call of resolveHref: its base, its href and what it returned
    extractor       \* one call of extractLinks: its arguments, its locals, its position

progVars == <<startUrl, urlChannel, crawlers, schedPc, result, linkIdx,
              urlsCounter, foundUrls, mainPc, mainResult>>
histVars == <<fetches, loaded, linkEnqueued, received, delivered, errored,
              foundAtRecv, counterAtRecv, gained>>
vars == <<startUrl, urlChannel, crawlers, schedPc, result, linkIdx,
          urlsCounter, foundUrls, mainPc, mainResult,
          fetches, loaded, linkEnqueued, received, delivered, errored,
          foundAtRecv, counterAtRecv, gained, resolver, extractor>>

crawlVars == <<startUrl, urlChannel, crawlers, schedPc, result, linkIdx,
               urlsCounter, foundUrls, mainPc, mainResult,
               fetches, loaded, linkEnqueued, received, delivered, errored,
               foundAtRecv, counterAtRecv, gained>>
fnVars == <<resolver, extractor>>

BagAdd(bag, e) == bag (+) SetToBag({e})

Idle == [pc |-> "recv", url |-> NoURL, page |-> NoPage]

\* log.Fatalln in main and a panic in a crawler end the process: no goroutine
\* takes another step.
Alive == mainPc # "exited" /\ \A w \in Crawlers : crawlers[w].pc # "panic"

\* No call of resolveHref, no call of extractLinks.
NoResolver == [pc |-> "off", base |-> NoURL, href |-> <<>>, out |-> ResolveError]
NoExtractor == [pc |-> "off"]

\* The state when startCrawling has made its channels, its map and its
\* crawlers and set urlsCounter to 1 (kraul.go:207-215).
Init ==
    /\ startUrl \in Seeds
    /\ urlChannel = <<>>
    /\ crawlers = [w \in Crawlers |-> Idle]
    /\ schedPc = "seed"
    /\ result = NoPage
    /\ linkIdx = 0
    /\ urlsCounter = 1
    /\ foundUrls = {}
    /\ mainPc = "recv"
    /\ mainResult = NoPage
    /\ fetches = EmptyBag
    /\ loaded = EmptyBag
    /\ linkEnqueued = EmptyBag
    /\ received = EmptyBag
    /\ delivered = EmptyBag
    /\ errored = {}
    /\ foundAtRecv = {}
    /\ counterAtRecv = 0
    /\ gained = <<>>
    /\ resolver = NoResolver
    /\ extractor = NoExtractor

(* ------------------------------------------------------------- scheduler *)

\* urlChannel <- startUrl
SchedSeed ==
    /\ Alive
    /\ UNCHANGED fnVars
    /\ schedPc = "seed"
    /\ Len(urlChannel) < FrontierCap
    /\ urlChannel' = Append(urlChannel, startUrl)
    /\ schedPc' = "select"
    /\ UNCHANGED <<startUrl, crawlers, result, linkIdx, urlsCounter, foundUrls,
                   mainPc, mainResult>>
    /\ UNCHANGED histVars

\* Mutant: the error case forgets urlsCounter--.
SchedRecvErrorKeepsCount(w) ==
    /\ Alive
    /\ UNCHANGED fnVars
    /\ schedPc = "select"
    /\ crawlers[w].pc = "sendError"
    /\ crawlers' = [crawlers EXCEPT ![w] = [Idle EXCEPT !.pc = "sleep"]]
    /\ errored' = errored \cup {String(crawlers[w].url)}
    /\ UNCHANGED <<startUrl, urlChannel, schedPc, result, linkIdx, urlsCounter,
                   foundUrls, mainPc, mainResult>>
    /\ UNCHANGED <<fetches, loaded, linkEnqueued, received, delivered,
                   foundAtRecv, counterAtRecv, gained>>

\* Mutant: the error case puts the failed address back on the frontier.
SchedRecvErrorRetries(w) ==
    /\ Alive
    /\ UNCHANGED fnVars
    /\ schedPc = "select"
    /\ crawlers[w].pc = "sendError"
    /\ Len(urlChannel) < FrontierCap
    /\ urlChannel' = Append(urlChannel, crawlers[w].url)
    /\ crawlers' = [crawlers EXCEPT ![w] = [Idle EXCEPT !.pc = "sleep"]]
    /\ errored' = errored \cup {String(crawlers[w].url)}
    /\ UNCHANGED <<startUrl, schedPc, result, linkIdx, urlsCounter,
                   foundUrls, mainPc, mainResult>>
    /\ UNCHANGED <<fetches, loaded, linkEnqueued, received, delivered,
                   foundAtRecv, counterAtRecv, gained>>

\* case errorResult := <-errorChannel: the rendezvous with crawler w, which
\* goes on to its Sleep.
SchedRecvError(w) ==
    /\ Alive
    /\ UNCHANGED fnVars
    /\ schedPc = "select"
    /\ crawlers[w].pc = "sendError"
    /\ urlsCounter' = urlsCounter - 1
    /\ crawlers' = [crawlers EXCEPT ![w] = [Idle EXCEPT !.pc = "sleep"]]
    /\ errored' = errored \cup {String(crawlers[w].url)}
    /\ UNCHANGED <<startUrl, urlChannel, schedPc, result, linkIdx, foundUrls,
                   mainPc, mainResult>>
    /\ UNCHANGED <<fetches, loaded, linkEnqueued, received, delivered,
                   foundAtRecv, counterAtRecv, gained>>

\* Where the scheduler stands once the range over result.Links is at index i.
AfterLink(page, i) == IF i > Len(page.Links) THEN "select" ELSE "links"

\* Mutant: the result case goes on to the links without sending the page to
\* main.
SchedRecvResultNoForward(w) ==
    /\ Alive
    /\ UNCHANGED fnVars
    /\ schedPc = "select"
    /\ crawlers[w].pc = "sendResult"
    /\ urlsCounter' = urlsCounter - 1
    /\ result' = crawlers[w].page
    /\ schedPc' = AfterLink(crawlers[w].page, 1)
    /\ linkIdx' = 1
    /\ crawlers' = [crawlers EXCEPT ![w] = [Idle EXCEPT !.pc = "sleep"]]
    /\ received' = BagAdd(received, String(crawlers[w].page.URL))
    /\ foundAtRecv' = foundUrls
    /\ counterAtRecv' = urlsCounter
    /\ gained' = <<>>
    /\ UNCHANGED <<startUrl, urlChannel, foundUrls, mainPc, mainResult>>
    /\ UNCHANGED <<fetches, loaded, linkEnqueued, delivered, errored>>

\* case result := <-intermediateResultChannel: the rendezvous with crawler w;
\* the scheduler goes on to send the page to main.
SchedRecvResult(w) ==
    /\ Alive
    /\ UNCHANGED fnVars
    /\ schedPc = "select"
    /\ crawlers[w].pc = "sendResult"
    /\ urlsCounter' = urlsCounter - 1
    /\ result' = crawlers[w].page
    /\ schedPc' = "forward"
    /\ linkIdx' = 0
    /\ crawlers' = [crawlers EXCEPT ![w] = [Idle EXCEPT !.pc = "sleep"]]
    /\ received' = BagAdd(received, String(crawlers[w].page.URL))
    /\ foundAtRecv' = foundUrls
    /\ counterAtRecv' = urlsCounter
    /\ gained' = <<>>
    /\ UNCHANGED <<startUrl, urlChannel, foundUrls, mainPc, mainResult>>
    /\ UNCHANGED <<fetches, loaded, linkEnqueued, delivered, errored>>

\* resultChannel <- result, received by the range over chResponses in main.
SchedForward ==
    /\ Alive
    /\ UNCHANGED fnVars
    /\ schedPc = "forward"
    /\ mainPc = "recv"
    /\ mainResult' = result
    /\ mainPc' = "store"
    /\ linkIdx' = 1
    /\ schedPc' = AfterLink(result, 1)
    /\ delivered' = BagAdd(delivered, String(result.URL))
    /\ UNCHANGED <<startUrl, urlChannel, crawlers, result, urlsCounter, foundUrls>>
    /\ UNCHANGED <<fetches, loaded, linkEnqueued, received, errored,
                   foundAtRecv, counterAtRecv, gained>>

\* Mutant: the membership test is lost, every web link counts as new.
IsNewUrlAlways(urlString, found) == TRUE

\* if !foundUrls[urlString]
IsNewUrl(urlString, found) == urlString \notin found

\* Mutant: the link loop enqueues the address and does not put its string
\* into foundUrls.
SchedLinkForgets ==
    /\ Alive
    /\ UNCHANGED fnVars
    /\ schedPc = "links"
    /\ LET url == StripFragment(result.Links[linkIdx])
           urlString == String(url)
       IN  IF isWebUrl(result.Links[linkIdx]) /\ IsNewUrl(urlString, foundUrls)
           THEN /\ Len(urlChannel) < FrontierCap
                /\ urlChannel' = Append(urlChannel, url)
                /\ urlsCounter' = urlsCounter + 1
                /\ UNCHANGED foundUrls
                /\ linkEnqueued' = BagAdd(linkEnqueued, urlString)
                /\ gained' = Append(gained, url)
           ELSE /\ UNCHANGED <<urlChannel, urlsCounter, foundUrls,
                               linkEnqueued, gained>>
    /\ linkIdx' = linkIdx + 1
    /\ schedPc' = AfterLink(result, linkIdx + 1)
    /\ UNCHANGED <<startUrl, crawlers, result, mainPc, mainResult>>
    /\ UNCHANGED <<fetches, loaded, received, delivered, errored,
                   foundAtRecv, counterAtRecv>>

\* One pass of the range over result.Links: a web link that is not in
\* foundUrls is sent on urlChannel (which blocks while the channel is full),
\* counted and recorded; any other link is passed over.
SchedLink ==
    /\ Alive
    /\ UNCHANGED fnVars
    /\ schedPc = "links"
    /\ LET url == StripFragment(result.Links[linkIdx])
           urlString == String(url)
       IN  IF isWebUrl(result.Links[linkIdx]) /\ IsNewUrl(urlString, foundUrls)
           THEN /\ Len(urlChannel) < FrontierCap
                /\ urlChannel' = Append(urlChannel, url)
                /\ urlsCounter' = urlsCounter + 1
                /\ foundUrls' = foundUrls \cup {urlString}
                /\ linkEnqueued' = BagAdd(linkEnqueued, urlString)
                /\ gained' = Append(gained, url)
           ELSE /\ UNCHANGED <<urlChannel, urlsCounter, foundUrls,
                               linkEnqueued, gained>>
    /\ linkIdx' = linkIdx + 1
    /\ schedPc' = AfterLink(result, linkIdx + 1)
    /\ UNCHANGED <<startUrl, crawlers, result, mainPc, mainResult>>
    /\ UNCHANGED <<fetches, loaded, received, delivered, errored,
                   foundAtRecv, counterAtRecv>>

(* --------------------------------------------------------------- crawler *)

\* for url := range urlChannel
CrawlerRecv(w) ==
    /\ Alive
    /\ UNCHANGED fnVars
    /\ crawlers[w].pc = "recv"
    /\ urlChannel # <<>>
    /\ crawlers' = [crawlers EXCEPT ![w] = [Idle EXCEPT !.pc = "load",
                                                        !.url = Head(urlChannel)]]
    /\ urlChannel' = Tail(urlChannel)
    /\ UNCHANGED <<startUrl, schedPc, result, linkIdx, urlsCounter, foundUrls,
                   mainPc, mainResult>>
    /\ UNCHANGED histVars

\* Mutant: the crawler takes the finished job off urlsCounter itself.
CrawlerLoadCounts(w) ==
    /\ Alive
    /\ UNCHANGED fnVars
    /\ crawlers[w].pc = "load"
    /\ crawlers' = [crawlers EXCEPT ![w].pc = "sendError"]
    /\ urlsCounter' = urlsCounter - 1
    /\ fetches' = BagAdd(fetches, String(StripFragment(crawlers[w].url)))
    /\ UNCHANGED <<startUrl, urlChannel, schedPc, result, linkIdx,
                   foundUrls, mainPc, mainResult>>
    /\ UNCHANGED <<loaded, linkEnqueued, received, delivered, errored,
                   foundAtRecv, counterAtRecv, gained>>

\* result, err := loadPage(url): the GET fails, or extractLinks panics, or the
\* crawler goes on to send the page.
CrawlerLoad(w) ==
    /\ Alive
    /\ UNCHANGED fnVars
    /\ crawlers[w].pc = "load"
    /\ \/ /\ crawlers' = [crawlers EXCEPT ![w].pc = "sendError"]
          /\ UNCHANGED loaded
       \/ /\ CanLoad(crawlers[w].url)
          /\ Extracted(crawlers[w].url).pc = "panic"
          /\ crawlers' = [crawlers EXCEPT ![w].pc = "panic"]
          /\ UNCHANGED loaded
       \/ /\ CanLoad(crawlers[w].url)
          /\ Extracted(crawlers[w].url).pc # "panic"
          /\ crawlers' = [crawlers EXCEPT ![w].pc = "sendResult",
                                          ![w].page = loadPage(crawlers[w].url)]
          /\ loaded' = BagAdd(loaded, String(crawlers[w].url))
    /\ fetches' = BagAdd(fetches, String(StripFragment(crawlers[w].url)))
    /\ UNCHANGED <<startUrl, urlChannel, schedPc, result, linkIdx, urlsCounter,
                   foundUrls, mainPc, mainResult>>
    /\ UNCHANGED <<linkEnqueued, received, delivered, errored,
                   foundAtRecv, counterAtRecv, gained>>

\* time.Sleep(100 * time.Millisecond) is over.
CrawlerWake(w) ==
    /\ Alive
    /\ UNCHANGED fnVars
    /\ crawlers[w].pc = "sleep"
    /\ crawlers' = [crawlers EXCEPT ![w].pc = "recv"]
    /\ UNCHANGED <<startUrl, urlChannel, schedPc, result, linkIdx, urlsCounter,
                   foundUrls, mainPc, mainResult>>
    /\ UNCHANGED histVars

(* ------------------------------------------------------------------ main *)

\* storeResult(result) returns nil: main goes back to its range.
MainStored ==
    /\ Alive
    /\ UNCHANGED fnVars
    /\ mainPc = "store"
    /\ mainPc' = "recv"
    /\ mainResult' = NoPage
    /\ UNCHANGED <<startUrl, urlChannel, crawlers, schedPc, result, linkIdx,
                   urlsCounter, foundUrls>>
    /\ UNCHANGED histVars

\* storeResult(result) returns an error: log.Fatalln ends the process.
MainFatal ==
    /\ Alive
    /\ UNCHANGED fnVars
    /\ mainPc = "store"
    /\ mainPc' = "exited"
    /\ UNCHANGED <<startUrl, urlChannel, crawlers, schedPc, result, linkIdx,
                   urlsCounter, foundUrls, mainResult>>
    /\ UNCHANGED histVars

(* --------------------------------------------------------- specification *)

SchedulerStep ==
    \/ SchedSeed
    \/ \E w \in Crawlers : SchedRecvError(w)
    \/ \E w \in Crawlers : SchedRecvResult(w)
    \/ SchedForward
    \/ SchedLink

CrawlerStep(w) ==
    \/ CrawlerRecv(w)
    \/ CrawlerLoad(w)
    \/ CrawlerWake(w)

MainStep ==
    \/ MainStored
    \/ MainFatal

Next ==
    \/ SchedSeed
    \/ \E w \in Crawlers : SchedRecvError(w)
    \/ \E w \in Crawlers : SchedRecvResult(w)
    \/ SchedForward
    \/ SchedLink
    \/ \E w \in Crawlers : CrawlerRecv(w)
    \/ \E w \in Crawlers : CrawlerLoad(w)
    \/ \E w \in Crawlers : CrawlerWake(w)
    \/ MainStored
    \/ MainFatal

Spec == Init /\ [][Next]_vars

\* The Go runtime keeps running every goroutine that can take a step, and
\* every GET and every store returns.
FairSpec ==
    /\ Spec
    /\ WF_vars(SchedulerStep)
    /\ \A w \in Crawlers : WF_vars(CrawlerStep(w))
    /\ WF_vars(MainStep)

(* ------------------------------------------------- resolveHref on its own *)

\* No crawl: the crawler pool, the scheduler and main are not started.
CrawlOff ==
    /\ startUrl = NoURL
    /\ urlChannel = <<>>
    /\ crawlers = [w \in Crawlers |-> Idle]
    /\ schedPc = "off"
    /\ result = NoPage
    /\ linkIdx = 0
    /\ urlsCounter = 0
    /\ foundUrls = {}
    /\ mainPc = "off"
    /\ mainResult = NoPage
    /\ fetches = EmptyBag
    /\ loaded = EmptyBag
    /\ linkEnqueued = EmptyBag
    /\ received = EmptyBag
    /\ delivered = EmptyBag
    /\ errored = {}
    /\ foundAtRecv = {}
    /\ counterAtRecv = 0
    /\ gained = <<>>

\* The bases: absolute addresses with and without a path, and addresses that
\* lack the scheme, the host or both.
Bases ==
    { URL(http, hostH, <<"/", "a">>, <<>>),
      URL(https, hostH, <<"/", "d", "/", "a">>, <<"x">>),
      URL(http, hostH, <<>>, <<>>),
      URL(ftp, <<"o">>, <<"/">>, <<>>),
      URL(<<>>, hostH, <<"/", "a">>, <<>>),
      URL(http, <<>>, <<"/", "a">>, <<>>),
      URL(<<>>, <<>>, <<"/", "a">>, <<>>),
      NoURL }

\* The references: empty, fragment only, query only, relative and absolute
\* paths, a host without scheme, absolute addresses, schemes resolveHref
\* passes through, and strings url.Parse refuses.
Hrefs ==
    { <<>>,
      <<"#", "x">>,
      <<"?", "q">>,
      <<"?">>,
      <<"?", "q", "#", "x">>,
      <<"/", "/">>,
      <<"c">>,
      <<".", "/", "c">>,
      <<"/", "b">>,
      <<"/", "b", "#", "x">>,
      <<"/", "/", "o", "/", "b">>,
      <<"h", "t", "t", "p", ":", "/", "/", "o", "/", "b">>,
      <<"h", "t", "t", "p", "s", ":", "/", "/", "o">>,
      <<"h", "t", "t", "p", ":", "b">>,
      <<"m", "a", "i", "l", "t", "o", ":", "x">>,
      <<"t", "e", "l", ":", "/", "/">>,
      <<":">>,
      <<"1", ":", "b">>,
      <<"a", "\n">> }

ResolveInit ==
    /\ CrawlOff
    /\ extractor = NoExtractor
    /\ resolver \in {[pc |-> "call", base |-> base, href |-> href,
                       out |-> ResolveError] : base \in Bases, href \in Hrefs}

\* url, err := resolveHref(base, href)
Resolve ==
    /\ resolver.pc = "call"
    /\ resolver' = [resolver EXCEPT !.pc = "returned",
                                    !.out = resolveHref(resolver.base, resolver.href)]
    /\ UNCHANGED crawlVars
    /\ UNCHANGED extractor

ResolveSpec == ResolveInit /\ [][Resolve]_vars

(* ------------------------------------------------- extractLinks on its own *)

\* The longest document extractLinks reads here.
MaxDocLen == 4

\* The document address of these runs: http://h/d/a
DocumentUrl == URL(http, hostH, <<"/", "d", "/", "a">>, <<>>)

\* The tokens the documents are made of: the head and its end; a base with an
\* address, and one that url.Parse refuses; anchors with a rooted path and a
\* fragment, a relative path, a full address, a telephone link, the bare
\* telephone prefix, an href that url.Parse refuses, and no href at all; and
\* a self-closing anchor.
TokenSet ==
    { StartTag("head", <<>>),
      Token("EndTag", "head", <<>>),
      Base(<<"h", "t", "t", "p", ":", "/", "/", "o", "/", "p", "/", "q">>),
      Base(<<":">>),
      Anchor(<<"/", "b", "#", "x">>),
      Anchor(<<"c">>),
      Anchor(<<"h", "t", "t", "p", ":", "/", "/", "o", "/", "b">>),
      Anchor(<<"t", "e", "l", ":", "/", "/", "5">>),
      Anchor(<<"t", "e", "l", ":", "/", "/">>),
      Anchor(<<":">>),
      StartTag("a", <<Attribute("name", <<"x">>)>>),
      Token("SelfClosingTag", "a", <<Attribute("href", <<"c">>)>>) }

\* extractLinks(documentUrl, r) was called.
ExtractInit ==
    /\ CrawlOff
    /\ resolver = NoResolver
    /\ extractor = ExtractStart(DocumentUrl)

\* tokenizer.Next() yields a token that is not the ErrorToken, and the loop
\* handles it.
ExtractNext ==
    /\ extractor.pc = "next"
    /\ Len(extractor.tokens) < MaxDocLen
    /\ \E t \in TokenSet :
           extractor' = [extractToken(extractor, t) EXCEPT
                             !.tokens = Append(extractor.tokens, t)]
    /\ UNCHANGED crawlVars
    /\ UNCHANGED resolver

\* tokenizer.Next() yields the ErrorToken at the end of the document:
\* extractLinks returns.
ExtractReturn ==
    /\ extractor.pc = "next"
    /\ extractor' = [extractor EXCEPT !.pc = "done"]
    /\ UNCHANGED crawlVars
    /\ UNCHANGED resolver

ExtractSpec == ExtractInit /\ [][ExtractNext \/ ExtractReturn]_vars

(* ---------------------------------------------------------------- claims *)

\* The crawlers that hold an address: fetching it, blocked reporting its
\* page or its error, or stopped by the panic while reading its document.
Holding ==
    {w \in Crawlers : crawlers[w].pc \in {"load", "sendError", "sendResult", "panic"}}

\* No work is in flight and none is pending.
Quiescent ==
    /\ schedPc = "select"
    /\ urlsCounter = 0
    /\ urlChannel = <<>>
    /\ Holding = {}

\* C1: once the crawl is quiescent (counter 0, frontier empty, no crawler
\* holding an address, no result pending), the scheduler returns and the sink
\* loop of main ends.
C1_QuiescenceEndsTheCrawl ==
    (Quiescent /\ mainPc = "recv") ~> (schedPc = "returned" /\ mainPc = "done")

\* The scheduler stands at urlChannel <- url with the channel full.
BlockedOnFullFrontier ==
    /\ Alive
    /\ schedPc = "links"
    /\ isWebUrl(result.Links[linkIdx])
    /\ IsNewUrl(String(StripFragment(result.Links[linkIdx])), foundUrls)
    /\ Len(urlChannel) >= FrontierCap

\* C2: in no reachable state is the scheduler blocked sending on a full
\* frontier while every crawler is blocked reporting its page or its error.
C2_EnqueueNeverDeadlocks ==
    ~(/\ BlockedOnFullFrontier
      /\ \A w \in Crawlers : crawlers[w].pc \in {"sendError", "sendResult"})

\* The page at address string s carries a link to itself.
LinksToItself(s) ==
    \E u \in {pageA, pageB, pageC, pageD, pageE, pageX} :
        /\ String(u) = s
        /\ \E i \in 1..Len(Extracted(u).links) : String(Extracted(u).links[i]) = s

\* C3: a page that links to itself, the seed included, is fetched at most
\* once in the whole crawl.
C3_SelfLinkFetchedOnce ==
    \A s \in BagToSet(fetches) : LinksToItself(s) => CopiesIn(s, fetches) <= 1

Count(url, bag) == CopiesIn(url, bag)

\* C4: every address string is added to foundUrls at most once, the link
\* loop enqueues an address exactly when it adds it to foundUrls, and so no
\* address string is enqueued twice by link discovery.
C4_NoAddressEnqueuedTwice ==
    /\ BagToSet(linkEnqueued) = foundUrls
    /\ \A s \in foundUrls : Count(s, linkEnqueued) = 1

\* The cycle /a -> /b -> /a was walked: /b's links were handled when /a was
\* already found.
C4_Witness ==
    /\ schedPc = "select"
    /\ result.URL = pageB
    /\ String(pageA) \in foundAtRecv
    /\ Count(String(pageA), fetches) = 2

\* C5: whenever the scheduler waits in its select, urlsCounter is the number
\* of addresses queued in the frontier plus the number of crawlers holding an
\* address, and it is not negative.
C5_CounterCountsOutstandingJobs ==
    schedPc = "select" =>
        /\ urlsCounter = Len(urlChannel) + Cardinality(Holding)
        /\ urlsCounter >= 0

\* The scheduler waits with one address queued and both kinds of outcome
\* pending.
C5_Witness ==
    /\ schedPc = "select"
    /\ Len(urlChannel) = 1
    /\ \E w \in Crawlers : crawlers[w].pc = "sendError"
    /\ \E w \in Crawlers : crawlers[w].pc = "sendResult"
    /\ errored # {}

\* The step in which crawler w's send on errorChannel completes.
ErrorConsumed(w) == crawlers[w].pc = "sendError" /\ crawlers'[w].pc # "sendError"

\* C6: consuming a CrawlError takes one off urlsCounter, leaves the frontier,
\* foundUrls, the sink and every other crawler as they were and the scheduler
\* in its select; and no step enqueues an address whose CrawlError was
\* consumed.
C6_ErrorIsCountedAndNotRetried ==
    [][ /\ \A w \in Crawlers : ErrorConsumed(w) =>
              /\ urlsCounter' = urlsCounter - 1
              /\ urlChannel' = urlChannel
              /\ foundUrls' = foundUrls
              /\ delivered' = delivered
              /\ mainPc' = mainPc /\ mainResult' = mainResult
              /\ schedPc = "select" /\ schedPc' = "select"
              /\ \A v \in Crawlers \ {w} : crawlers'[v] = crawlers[v]
        /\ Len(urlChannel') > Len(urlChannel) =>
              String(urlChannel'[Len(urlChannel')]) \notin errored
      ]_vars

\* /b failed, and /d was fetched and delivered all the same.
C6_Witness ==
    /\ String(pageB) \in errored
    /\ Count(String(pageD), delivered) = 1
    /\ urlsCounter > 0

\* The fragment-stripped strings of the http/https links of a link sequence.
WebLinkStrings(links) ==
    { String(StripFragment(links[i])) :
        i \in {j \in 1..Len(links) : links[j].Scheme \in {http, https}} }

\* What holds when the scheduler is done with result: foundUrls, the jobs
\* gained and urlsCounter against their values when result was received.
PageHandled ==
    LET new == WebLinkStrings(result.Links) \ foundAtRecv
    IN  /\ foundUrls = foundAtRecv \cup WebLinkStrings(result.Links)
        /\ \A s \in new :
              Cardinality({i \in 1..Len(gained) : String(gained[i]) = s}) = 1
        /\ \A i \in 1..Len(gained) :
              /\ String(gained[i]) \in new
              /\ gained[i].Scheme \in {http, https}
              /\ gained[i].Fragment = <<>>
        /\ urlsCounter = counterAtRecv + Len(gained) - 1

\* C7: when the scheduler has consumed a FetchedPage with links L, foundUrls
\* is the old set plus the fragment-stripped strings of the http/https links
\* of L, the frontier gained one job for each such string that was not in the
\* old set and no other job, and urlsCounter changed by the number of jobs
\* gained minus one.
C7_PageHandlerEffect ==
    [][ /\ (schedPc \in {"forward", "links"} /\ schedPc' = "select") => PageHandled'
        /\ (schedPc \in {"forward", "links"} /\ gained' # gained) =>
              /\ urlChannel' = Append(urlChannel, gained'[Len(gained')])
              /\ gained' = Append(gained, gained'[Len(gained')])
              /\ gained'[Len(gained')].Scheme \in {http, https}
              /\ gained'[Len(gained')].Fragment = <<>>
              /\ String(gained'[Len(gained')])
                     \in WebLinkStrings(result.Links) \ foundUrls
        /\ (schedPc \in {"forward", "links"} /\ urlChannel' # urlChannel
            /\ Len(urlChannel') >= Len(urlChannel)) => gained' # gained
      ]_vars

\* The scheduler is done with /d's page, whose five links gave three jobs.
C7_Witness ==
    /\ schedPc = "select"
    /\ result.URL = pageD
    /\ Len(gained) = 3
    /\ String(pageD) \in foundAtRecv

\* The pages crawlers hold blocked on intermediateResultChannel.
PendingPages(s) ==
    Cardinality({w \in Crawlers : /\ crawlers[w].pc = "sendResult"
                                  /\ String(crawlers[w].page.URL) = s})

C9_FrontierAddressesAreAbsolute ==
    \A i \in 1..Len(urlChannel) :
        /\ urlChannel[i].Scheme # <<>>
        /\ urlChannel[i].Host # <<>>
        /\ urlChannel[i].Fragment = <<>>

\* C10: every step of a crawler and every step of main leaves foundUrls and
\* urlsCounter (and the scheduler's position, result and range index)
\* unchanged; a crawler's step touches only itself and the frontier, main's
\* step only main.
C10_OnlyTheSchedulerChangesItsState ==
    [][ /\ (\E w \in Crawlers : CrawlerStep(w)) =>
              /\ UNCHANGED <<foundUrls, urlsCounter, schedPc, result, linkIdx>>
              /\ UNCHANGED <<mainPc, mainResult>>
        /\ MainStep =>
              /\ UNCHANGED <<foundUrls, urlsCounter, schedPc, result, linkIdx>>
              /\ UNCHANGED <<urlChannel, crawlers>>
      ]_vars

\* A crawler and main have both worked while the scheduler's state was set.
C10_Witness ==
    /\ \E w \in Crawlers : crawlers[w].pc = "sendResult"
    /\ mainPc = "store"
    /\ foundUrls # {}
    /\ urlsCounter >= 2

\* C15: for a base with scheme and host and a reference that parses and has
\* no scheme, no host and no path, resolveHref succeeds and returns an
\* address with the base's scheme, host and path ("/" when the base has no
\* path); for a base that lacks the scheme or the host it returns an error
\* and no address, whatever the reference.
C15_ResolveInheritsFromBase ==
    resolver.pc = "returned" =>
        LET base == resolver.base
            ref == Parse(resolver.href)
            out == resolver.out
        IN  /\ (/\ base.Scheme # <<>> /\ base.Host # <<>>
                /\ ~ref.err
                /\ ref.url.Scheme = <<>> /\ ref.url.Host = <<>>
                /\ ref.url.Path = <<>>)
               => /\ ~out.err
                  /\ out.url.Scheme = base.Scheme
                  /\ out.url.Host = base.Host
                  /\ out.url.Path = (IF base.Path = <<>> THEN <<"/">> ELSE base.Path)
            /\ (base.Scheme = <<>> \/ base.Host = <<>>)
               => out.err /\ out.url = NoURL

\* resolveHref returned for the reference "#x" against a base without path.
C15_Witness ==
    /\ resolver.pc = "returned"
    /\ resolver.href = <<"#", "x">>
    /\ resolver.base = URL(http, hostH, <<>>, <<>>)
    /\ resolver.out.url.Path = <<"/">>
    /\ resolver.out.url.Fragment = <<"x">>

(* ------------------------------------------------ claims on extractLinks *)

\* The loop of extractLinks reads the token t in this step.
Reads(t) ==
    /\ extractor.pc = "next"
    /\ extractor'.tokens = Append(extractor.tokens, t)

\* A start tag of that name that carries an href.
TagWithHref(t, name) ==
    /\ t.Type = "StartTag"
    /\ t.Data = name
    /\ getAttribute(t, "href").ok

Href(t) == getAttribute(t, "href").value

\* The tokens read so far are inside the head: a head started, and did not
\* end since.
InsideHead(tokens) ==
    \E i \in 1..Len(tokens) :
        /\ tokens[i].Type = "StartTag" /\ tokens[i].Data = "head"
        /\ \A j \in (i + 1)..Len(tokens) :
               ~(tokens[j].Type = "EndTag" /\ tokens[j].Data = "head")

\* C11: a base tag inside the head whose href url.Parse refuses puts the
\* base back to the address of the document, and extraction goes on.
C11_MalformedBaseFallsBack ==
    [][\A t \in TokenSet :
           (/\ Reads(t)
            /\ TagWithHref(t, "base")
            /\ extractor.inHeader
            /\ Parse(Href(t)).err)
           => /\ extractor'.pc = "next"
              /\ extractor'.baseURL = extractor.documentUrl]_vars

\* A telephone link: tel:// and at least one character after it, none of
\* them a line break.
TelephoneLink(href) ==
    /\ HasPrefix(href, tel)
    /\ Len(href) > Len(tel)
    /\ \A i \in 1..Len(href) : href[i] # "\n"

\* C12: an anchor whose href is a telephone link appends the href as it is
\* to the phone numbers and nothing to the links; no link of the sequence is
\* a telephone link, and none that isWebUrl lets into the frontier begins
\* with tel://.
C12_TelephoneLinksAreNotLinks ==
    /\ [](extractor.pc # "off" =>
            \A i \in 1..Len(extractor.links) :
                /\ ~TelephoneLink(String(extractor.links[i]))
                /\ isWebUrl(extractor.links[i])
                   => ~HasPrefix(String(extractor.links[i]), tel))
    /\ [][\A t \in TokenSet :
              (/\ Reads(t)
               /\ TagWithHref(t, "a")
               /\ TelephoneLink(Href(t)))
              => /\ extractor'.phoneNumbers = Append(extractor.phoneNumbers, Href(t))
                 /\ extractor'.links = extractor.links
                 /\ extractor'.pc = "next"]_vars

\* extractLinks read a telephone link and then returned.
C12_Witness ==
    /\ extractor.pc = "done"
    /\ extractor.phoneNumbers = << <<"t", "e", "l", ":", "/", "/", "5">> >>
    /\ Len(extractor.links) = 2

\* An anchor with an href that is no telephone link and that resolves against
\* the base.
LinkAnchor(t, base) ==
    /\ TagWithHref(t, "a")
    /\ ~TelephoneLink(Href(t))
    /\ ~resolveHref(base, Href(t)).err

C18_BaseOnlyInsideHead ==
    [][\A t \in TokenSet :
           (/\ Reads(t)
            /\ TagWithHref(t, "base")
            /\ ~Parse(Href(t)).err)
           => extractor'.baseURL = IF InsideHead(extractor.tokens)
                                   THEN Parse(Href(t)).url
                                   ELSE extractor.baseURL]_vars

(* ---------------------------------------------------- claims on the crawl *)

\* http://example.com/b and http://example.com/c, as the strings foundUrls
\* holds.
exampleB == String(URL(http, exampleCom, <<"/", "b">>, <<>>))
exampleC == String(URL(http, exampleCom, <<"/", "c">>, <<>>))

\* C13: with the seed http://example.com/a, whose page has anchors to /b,
\* ./c and tel://5551234, the scheduler is done with the page after it
\* enqueued two addresses, http://example.com/b and http://example.com/c,
\* and the page carries the phone number tel://5551234.
C13_ScenarioEnqueuesBAndC ==
    (startUrl = pageX /\ schedPc = "select" /\ result.URL = pageX)
    => /\ Len(gained) = 2
       /\ {String(gained[i]) : i \in 1..Len(gained)} = {exampleB, exampleC}
       /\ result.PhoneNumbers =
              << <<"t", "e", "l", ":", "/", "/", "5", "5", "5", "1", "2", "3", "4">> >>

\* C14: the process stops only when main fails to store a page, and once it
\* stopped no page reaches main any more.
C14_OnlySinkFailureHalts ==
    /\ [][(Alive /\ ~Alive') => (mainPc = "store" /\ mainPc' = "exited")]_vars
    /\ [][~Alive => delivered' = delivered]_vars

\* The scheduler waits at a full frontier for a crawler, and every crawler
\* waits for the scheduler.
FrontierDeadlock ==
    /\ BlockedOnFullFrontier
    /\ \A w \in Crawlers : crawlers[w].pc \in {"sendError", "sendResult"}

\* What the claims on progress leave aside: the full frontier stopped the
\* crawl, or main stopped the process at a write that failed.
Excused == FrontierDeadlock \/ mainPc = "exited"

\* Every address the scheduler found was fetched, and every page loadPage
\* returned reached main.
Exhausted ==
    /\ \A s \in foundUrls : Count(s, fetches) > 0
    /\ \A s \in BagToSet(loaded) : Count(s, delivered) = Count(s, loaded)

\* C16: every address the scheduler found is fetched in the end, and every
\* page loadPage returned reaches main in the end, unless the full frontier
\* stops the crawl or main stops storing.
C16_ReachableSetIsExhausted == []<>(Exhausted \/ Excused)

\* C19: no step takes a string out of foundUrls; and whenever the scheduler
\* is in its select, every address in urlChannel or in the hands of a crawler
\* is the seed or has its string, without fragment, in foundUrls.
C19_VisitedSetGrowsAndCoversJobs ==
    /\ [][foundUrls \subseteq foundUrls']_vars
    /\ [](schedPc = "select" =>
            /\ \A i \in 1..Len(urlChannel) :
                  \/ urlChannel[i] = startUrl
                  \/ String(StripFragment(urlChannel[i])) \in foundUrls
            /\ \A w \in Holding :
                  \/ crawlers[w].url = startUrl
                  \/ String(StripFragment(crawlers[w].url)) \in foundUrls)

\* The scheduler is in its select with three strings in foundUrls, a job in
\* urlChannel and one in the hands of a crawler, neither of them the seed.
C19_Witness ==
    /\ schedPc = "select"
    /\ Cardinality(foundUrls) >= 3
    /\ urlChannel # <<>>
    /\ urlChannel[1] # startUrl
    /\ \E w \in Holding : crawlers[w].url # startUrl

\* Quiescent, with every crawler back at its receive from urlChannel.
QuiescentIdle ==
    /\ Quiescent
    /\ \A w \in Crawlers : crawlers[w].pc = "recv"

\* C20: the crawl gets quiescent in the end (counter 0, frontier empty,
\* every crawler waiting on the frontier, no result pending) when the
\* scheduler never waits at a full frontier and main goes on storing; and
\* from a quiescent state no step enqueues a job, changes the counter or
\* hands a page to main.
C20_QuiescenceIsReachedAndStable ==
    /\ <>(QuiescentIdle \/ Excused)
    /\ [][QuiescentIdle => /\ urlChannel' = urlChannel
                           /\ urlsCounter' = urlsCounter
                           /\ delivered' = delivered]_vars

====
